---- MODULE Spec2Model ----
(***************************************************************************)
(* A model of scripts/morphocompare.py: MorphoSourceCSVProcessor.          *)
(*                                                                         *)
(* Python values are modelled as tagged records.  A text is a sequence of  *)
(* one-character strings, so that strip(), upper(), str() and float() are  *)
(* computed character by character.  A spacing is a whole number of units  *)
(* of 0.00005, so the comparison tolerance 0.0001 is 2 units; a Python     *)
(* float of n units prints as the digits of n followed by ".0".  Inputs    *)
(* whose difference is exactly the tolerance are left out: binary floating *)
(* point decides them by rounding.                                         *)
(***************************************************************************)
EXTENDS Integers, Sequences, FiniteSets, TLC

VARIABLES df, idx, results, processed, matched, verified, log, pc,
          lastResp, media_items

vars == <<df, idx, results, processed, matched, verified, log, pc,
          lastResp, media_items>>

\* ------------------------------------------------------------------------
\* Bounds of the model
\* ------------------------------------------------------------------------
MaxRows == 2
MaxItems == 2

\* ------------------------------------------------------------------------
\* Python values
\* ------------------------------------------------------------------------
\* t = "none" (None), "int", "flt" (a float), "nan" (the float nan), "str"
PyNone == [t |-> "none", n |-> 0, s |-> <<>>]
PyNaN == [t |-> "nan", n |-> 0, s |-> <<>>]
PyInt(k) == [t |-> "int", n |-> k, s |-> <<>>]
PyFlt(k) == [t |-> "flt", n |-> k, s |-> <<>>]
PyText(cs) == [t |-> "str", n |-> 0, s |-> cs]

\* A value of a JSON object: the key is absent, or holds a scalar (elems has
\* exactly one element; JSON null is PyNone) or a list of scalars.
Absent == [kind |-> "absent", elems |-> <<>>]
Scalar(v) == [kind |-> "scalar", elems |-> <<v>>]
List(vs) == [kind |-> "list", elems |-> vs]

\* ------------------------------------------------------------------------
\* str methods and conversions
\* ------------------------------------------------------------------------
RECURSIVE lstrip(_)
lstrip(cs) ==
    IF cs = <<>> THEN cs
    ELSE IF Head(cs) = " " THEN lstrip(Tail(cs)) ELSE cs

RECURSIVE rstrip(_)
rstrip(cs) ==
    IF cs = <<>> THEN cs
    ELSE IF cs[Len(cs)] = " " THEN rstrip(SubSeq(cs, 1, Len(cs) - 1)) ELSE cs

strip(cs) == rstrip(lstrip(cs))

upperChar(c) ==
    CASE c = "a" -> "A"
      [] c = "b" -> "B"
      [] c = "c" -> "C"
      [] c = "e" -> "E"
      [] c = "n" -> "N"
      [] c = "o" -> "O"
      [] c = "x" -> "X"
      [] OTHER -> c

upper(cs) == [i \in 1..Len(cs) |-> upperChar(cs[i])]

DigitChars == <<"0", "1", "2", "3", "4", "5", "6", "7", "8", "9">>

IsDigit(c) == \E d \in 1..Len(DigitChars) : DigitChars[d] = c

DigitVal(c) == (CHOOSE d \in 1..Len(DigitChars) : DigitChars[d] = c) - 1

RECURSIVE DigitsOf(_)
DigitsOf(k) ==
    IF k < Len(DigitChars) THEN <<DigitChars[k + 1]>>
    ELSE DigitsOf(k \div Len(DigitChars)) \o <<DigitChars[(k % Len(DigitChars)) + 1]>>

RECURSIVE ValueOfDigits(_)
ValueOfDigits(cs) ==
    IF cs = <<>> THEN 0
    ELSE ValueOfDigits(SubSeq(cs, 1, Len(cs) - 1)) * Len(DigitChars)
         + DigitVal(cs[Len(cs)])

\* str(v)
PyStr(v) ==
    CASE v.t = "none" -> <<"N", "o", "n", "e">>
      [] v.t = "nan" -> <<"n", "a", "n">>
      [] v.t = "int" -> DigitsOf(v.n)
      [] v.t = "flt" -> DigitsOf(v.n) \o <<".", "0">>
      [] OTHER -> v.s

\* The position of the first "." of a text, or 0.
DotAt(cs) ==
    IF \E i \in 1..Len(cs) : cs[i] = "."
    THEN CHOOSE i \in 1..Len(cs) : cs[i] = "." /\ \A j \in 1..(i - 1) : cs[j] # "."
    ELSE 0

\* float(text) on the texts of the model: optional blanks around digits with
\* an optional fraction of zeros; anything else raises ValueError.
WholePart(body) ==
    IF DotAt(body) = 0 THEN body ELSE SubSeq(body, 1, DotAt(body) - 1)

FracPart(body) ==
    IF DotAt(body) = 0 THEN <<>> ELSE SubSeq(body, DotAt(body) + 1, Len(body))

IsFloatText(whole, frac) ==
    /\ whole # <<>>
    /\ \A i \in 1..Len(whole) : IsDigit(whole[i])
    /\ \A i \in 1..Len(frac) : frac[i] = "0"

ParseStripped(body) ==
    IF IsFloatText(WholePart(body), FracPart(body))
    THEN [ok |-> TRUE, val |-> PyFlt(ValueOfDigits(WholePart(body)))]
    ELSE [ok |-> FALSE, val |-> PyNone]

ParseFloat(cs) == ParseStripped(strip(cs))

\* float(v): ok = FALSE when the call raises
PyFloat(v) ==
    CASE v.t = "int" -> [ok |-> TRUE, val |-> PyFlt(v.n)]
      [] v.t = "flt" -> [ok |-> TRUE, val |-> v]
      [] v.t = "nan" -> [ok |-> TRUE, val |-> v]
      [] v.t = "str" -> ParseFloat(v.s)
      [] OTHER -> [ok |-> FALSE, val |-> PyNone]

\* bool(v)
Truthy(v) ==
    CASE v.t = "none" -> FALSE
      [] v.t = "int" -> v.n # 0
      [] v.t = "flt" -> v.n # 0
      [] v.t = "nan" -> TRUE
      [] OTHER -> v.s # <<>>

\* dict.get(key): None when the key is absent
Get(f) == IF f.kind = "absent" THEN Scalar(PyNone) ELSE f

\* dict.get(key, default)
GetOr(f, default) == IF f.kind = "absent" THEN default ELSE f

\* ------------------------------------------------------------------------
\* construct_specimen_id
\* ------------------------------------------------------------------------
Colon == <<":">>

\* Lines 33-37 on the three stripped texts
JoinSpecimenId(institution, collection, catalog) ==
    IF \/ \E x \in {institution, collection, catalog} : x = <<>>
       \/ \E x \in {institution, collection, catalog} :
             x \in {<<"n", "a", "n">>, <<"N", "o", "n", "e">>}
    THEN PyNone
    ELSE PyText(institution \o Colon \o collection \o Colon \o catalog)

\* construct_specimen_id without the .strip() of lines 29-31
construct_specimen_id_no_strip(row) ==
    JoinSpecimenId(PyStr(row.institution_code), PyStr(row.collection_code),
                   PyStr(row.catalog_number))

construct_specimen_id(row) ==
    JoinSpecimenId(strip(PyStr(row.institution_code)),
                   strip(PyStr(row.collection_code)),
                   strip(PyStr(row.catalog_number)))

\* ------------------------------------------------------------------------
\* search_morphosource
\* ------------------------------------------------------------------------
\* A catalog answer.  kind = "ok": status 200 and a JSON body that holds the
\* list `items` under response.media (or as response); "status": any other
\* status code; "error": requests.get raises (transport failure, timeout);
\* "shape": status 200 and a body of another shape.  `items` are the media
\* records of the body, whatever the kind.

\* object_title after lines 86-88
FirstTitle(f) ==
    IF f.kind = "list"
    THEN IF f.elems # <<>> THEN f.elems[1] ELSE PyText(<<>>)
    ELSE f.elems[1]

object_title(item) ==
    FirstTitle(GetOr(item.physical_object_title, Scalar(PyText(<<>>))))

\* object_title.strip() raises AttributeError unless object_title is a str
TitleRaises(item) == object_title(item).t # "str"

TitleMatches(item, specimen_id) ==
    upper(strip(object_title(item).s)) = upper(specimen_id.s)

\* search_morphosource without the status test of line 55: the body of a
\* non-200 answer is read like any other
search_morphosource_any_status(specimen_id, resp) ==
    IF resp.kind \notin {"ok", "status"} THEN <<>>
    ELSE IF resp.items = <<>> THEN <<>>
    ELSE IF \E i \in 1..Len(resp.items) : TitleRaises(resp.items[i]) THEN <<>>
    ELSE LET Exact(item) == TitleMatches(item, specimen_id)
         IN  SelectSeq(resp.items, Exact)

\* The loop of lines 85-91 visits the items in order and an exception in any
\* of them leaves the function through the handler of line 104.
search_morphosource(specimen_id, resp) ==
    IF resp.kind # "ok" THEN <<>>
    ELSE IF resp.items = <<>> THEN <<>>
    ELSE IF \E i \in 1..Len(resp.items) : TitleRaises(resp.items[i]) THEN <<>>
    ELSE LET Exact(item) == TitleMatches(item, specimen_id)
         IN  SelectSeq(resp.items, Exact)

\* ------------------------------------------------------------------------
\* extract_voxel_spacing
\* ------------------------------------------------------------------------
get_first_value(field_data) ==
    IF field_data.kind = "list"
    THEN IF field_data.elems # <<>> THEN field_data.elems[1] ELSE PyNone
    ELSE field_data.elems[1]

\* One `if v: v = float(v)` statement of lines 120-122
ConvertAxis(v) == IF Truthy(v) THEN PyFloat(v) ELSE [ok |-> TRUE, val |-> v]

\* The three conversions share one try block: the first that raises ends the
\* block and the later axes keep their raw values.
ConvertJointly(x, y, z, cx, cy, cz) ==
    IF ~cx.ok THEN <<x, y, z>>
    ELSE IF ~cy.ok THEN <<cx.val, y, z>>
    ELSE IF ~cz.ok THEN <<cx.val, cy.val, z>>
    ELSE <<cx.val, cy.val, cz.val>>

ConvertSpacing(x, y, z) ==
    ConvertJointly(x, y, z, ConvertAxis(x), ConvertAxis(y), ConvertAxis(z))

extract_voxel_spacing(media_item) ==
    ConvertSpacing(get_first_value(Get(media_item.x_pixel_spacing)),
                   get_first_value(Get(media_item.y_pixel_spacing)),
                   get_first_value(Get(media_item.z_pixel_spacing)))

\* ------------------------------------------------------------------------
\* compare_voxel_spacing
\* ------------------------------------------------------------------------
\* tolerance=0.0001, in units of 0.00005
tolerance == 2

\* float(csv) if csv is not None and str(csv).strip() != '' else None
CsvFloat(csv) ==
    IF csv.t # "none" /\ strip(PyStr(csv)) # <<>>
    THEN PyFloat(csv)
    ELSE [ok |-> TRUE, val |-> PyNone]

\* abs(a - b) raises TypeError unless both are numbers
SubtractRaises(a, b) == ~(a.t \in {"int", "flt", "nan"} /\ b.t \in {"int", "flt", "nan"})

Abs(k) == IF k < 0 THEN -k ELSE k

\* abs(a - b) <= tolerance; every comparison with nan is False
AxisMatch(a, b) ==
    /\ a.t # "nan"
    /\ b.t # "nan"
    /\ Abs(a.n - b.n) <= tolerance

\* Lines 135-142 on the converted local values; a raise anywhere in the try
\* block returns False
CompareFloats(fx, fy, fz, api_x, api_y, api_z) ==
    IF ~(fx.ok /\ fy.ok /\ fz.ok) THEN FALSE
    ELSE IF \E v \in {fx.val, fy.val, fz.val, api_x, api_y, api_z} : v = PyNone
    THEN FALSE
    ELSE IF \/ SubtractRaises(fx.val, api_x)
            \/ SubtractRaises(fy.val, api_y)
            \/ SubtractRaises(fz.val, api_z)
    THEN FALSE
    ELSE /\ AxisMatch(fx.val, api_x)
         /\ AxisMatch(fy.val, api_y)
         /\ AxisMatch(fz.val, api_z)

compare_voxel_spacing(csv_x, csv_y, csv_z, api_x, api_y, api_z) ==
    CompareFloats(CsvFloat(csv_x), CsvFloat(csv_y), CsvFloat(csv_z), api_x, api_y, api_z)

\* ------------------------------------------------------------------------
\* process_csv: the body of the row loop
\* ------------------------------------------------------------------------
AllNotNone(vs) == \A i \in 1..Len(vs) : vs[i] # PyNone

\* media_id after lines 228-230 and 256-258
media_id_of(media_item) == get_first_value(Get(media_item.id))

\* str(media_id) if media_id else ''
MediaIdText(media_id) == IF Truthy(media_id) THEN PyStr(media_id) ELSE <<>>

\* The test of lines 237-238 for one media item
SpacingMatches(row, api) ==
    /\ AllNotNone(api \o <<row.Voxel_x_spacing, row.Voxel_y_spacing,
                            row.Voxel_z_spacing>>)
    /\ compare_voxel_spacing(row.Voxel_x_spacing, row.Voxel_y_spacing,
                             row.Voxel_z_spacing, api[1], api[2], api[3])

IsSpacingMatch(row, media_item) ==
    SpacingMatches(row, extract_voxel_spacing(media_item))

\* best_match without the break of line 250: the last match wins
best_match_no_break(row, items) ==
    IF \E i \in 1..Len(items) : IsSpacingMatch(row, items[i])
    THEN CHOOSE i \in 1..Len(items) :
            /\ IsSpacingMatch(row, items[i])
            /\ \A j \in (i + 1)..Len(items) : ~IsSpacingMatch(row, items[j])
    ELSE 0

\* The index of best_match in media_items (the loop breaks at the first
\* match), or 0 when best_match stays None.
best_match(row, items) ==
    IF \E i \in 1..Len(items) : IsSpacingMatch(row, items[i])
    THEN CHOOSE i \in 1..Len(items) :
            /\ IsSpacingMatch(row, items[i])
            /\ \A j \in 1..(i - 1) : ~IsSpacingMatch(row, items[j])
    ELSE 0

\* What one media item appends to available_scans (lines 262-275)
ScanOf(media_id, api) ==
    IF AllNotNone(api)
    THEN <<[media_id |-> MediaIdText(media_id),
            api_x |-> api[1], api_y |-> api[2], api_z |-> api[3]]>>
    ELSE IF Truthy(media_id)
    THEN <<[media_id |-> PyStr(media_id),
            api_x |-> PyNone, api_y |-> PyNone, api_z |-> PyNone]>>
    ELSE <<>>

ScanEntries(media_item) ==
    ScanOf(media_id_of(media_item), extract_voxel_spacing(media_item))

RECURSIVE available_scans(_)
available_scans(items) ==
    IF items = <<>> THEN <<>>
    ELSE ScanEntries(Head(items)) \o available_scans(Tail(items))

\* str(media_items[0].get('id', [''])[0]) of line 293; ok = FALSE when the
\* subscript raises (TypeError on None or a number, IndexError on '' or [])
FirstElementText(f) ==
    IF f.kind = "list"
    THEN IF f.elems = <<>> THEN [ok |-> FALSE, val |-> <<>>]
         ELSE [ok |-> TRUE, val |-> PyStr(f.elems[1])]
    ELSE IF f.elems[1].t = "str" /\ f.elems[1].s # <<>>
    THEN [ok |-> TRUE, val |-> <<f.elems[1].s[1]>>]
    ELSE [ok |-> FALSE, val |-> <<>>]

FirstIdText(items) == FirstElementText(GetOr(items[1].id, List(<<PyText(<<>>)>>)))

\* best_match_info after lines 224-299; raised = TRUE when line 293 raises
\* best_match_info of lines 240-246
VerifiedInfo(media_id, api) ==
    [raised |-> FALSE, media_id |-> MediaIdText(media_id),
     api_x |-> api[1], api_y |-> api[2], api_z |-> api[3],
     match_status |-> "Verified"]

\* best_match_info of lines 277-298
UnverifiedInfo(scans, first_id) ==
    IF scans # <<>>
    THEN [raised |-> FALSE, media_id |-> scans[1].media_id,
          api_x |-> scans[1].api_x, api_y |-> scans[1].api_y,
          api_z |-> scans[1].api_z,
          match_status |-> "Available but no spacing match"]
    ELSE [raised |-> ~first_id.ok, media_id |-> first_id.val,
          api_x |-> PyNone, api_y |-> PyNone, api_z |-> PyNone,
          match_status |-> "Found but no voxel data"]

InfoAt(items, b) ==
    IF b # 0
    THEN VerifiedInfo(media_id_of(items[b]), extract_voxel_spacing(items[b]))
    ELSE UnverifiedInfo(available_scans(items), FirstIdText(items))

best_match_info(row, items) == InfoAt(items, best_match(row, items))

\* str(v) if v is not None else ''
SpacingText(v) == IF v # PyNone THEN PyStr(v) ELSE <<>>

\* The result row of a row without specimen id (lines 186-191)
NoIdRow(row) ==
    [row |-> row, constructed_specimen_id |-> PyNone,
     morphosource_status |-> "No Specimen ID", matched_media_id |-> <<>>,
     match_status |-> "No",
     api_x_spacing |-> <<>>, api_y_spacing |-> <<>>, api_z_spacing |-> <<>>]

\* The result row of a row whose search returned nothing (lines 201-206)
NotFoundRow(row, specimen_id) ==
    [row |-> row, constructed_specimen_id |-> specimen_id,
     morphosource_status |-> "Not Found", matched_media_id |-> <<>>,
     match_status |-> "No",
     api_x_spacing |-> <<>>, api_y_spacing |-> <<>>, api_z_spacing |-> <<>>]

\* The result row set from best_match_info (lines 302-315)
FoundRow(row, specimen_id, info) ==
    [row |-> row, constructed_specimen_id |-> specimen_id,
     morphosource_status |-> "Found", matched_media_id |-> info.media_id,
     match_status |-> IF info.match_status = "Verified" THEN "Yes"
                      ELSE IF info.api_x # PyNone THEN "Mismatch"
                      ELSE "Missing Data",
     api_x_spacing |-> SpacingText(info.api_x),
     api_y_spacing |-> SpacingText(info.api_y),
     api_z_spacing |-> SpacingText(info.api_z)]

\* ------------------------------------------------------------------------
\* The state machine of process_csv
\* ------------------------------------------------------------------------
\* df: the loaded table; idx: the number of loop iterations entered;
\* results, processed, matched, verified: the locals of the same names;
\* log: the catalog queries and pacing sleeps, in order, each with its row;
\* pc: "loop" at a row boundary, "done" after the loop, "aborted" when an
\* exception left process_csv; lastResp: the catalog's answer in the latest
\* iteration (NoQuery when it asked nothing); media_items: the local of the
\* same name in the latest iteration.
NoQuery == [kind |-> "none", items |-> <<>>]

Tables(Rows, n) == UNION {[1..k -> Rows] : k \in 0..n}

InitOver(tables) ==
    /\ df \in tables
    /\ idx = 0
    /\ results = <<>>
    /\ processed = 0
    /\ matched = 0
    /\ verified = 0
    /\ log = <<>>
    /\ pc = "loop"
    /\ lastResp = NoQuery
    /\ media_items = <<>>

Query(i) == [ev |-> "query", row |-> i]
Sleep(i) == [ev |-> "sleep", row |-> i]

\* The row of the iteration about to run, its specimen id and its search
CurRow == df[idx + 1]
CurId == construct_specimen_id(CurRow)
CurItems(resp) == search_morphosource(CurId, resp)

\* An iteration that builds no specimen id (lines 178-193)
NoSpecimenId ==
    /\ pc = "loop"
    /\ idx < Len(df)
    /\ CurId = PyNone
    /\ idx' = idx + 1
    /\ results' = Append(results, NoIdRow(CurRow))
    /\ lastResp' = NoQuery
    /\ media_items' = <<>>
    /\ UNCHANGED <<df, processed, matched, verified, log, pc>>

\* NotFound with `matched += 1` moved above the test of line 200
NotFound_counts_match(resp) ==
    /\ pc = "loop"
    /\ idx < Len(df)
    /\ CurId # PyNone
    /\ CurItems(resp) = <<>>
    /\ idx' = idx + 1
    /\ lastResp' = resp
    /\ media_items' = <<>>
    /\ processed' = processed + 1
    /\ matched' = matched + 1
    /\ results' = Append(results, NotFoundRow(CurRow, CurId))
    /\ log' = Append(log, Query(idx + 1))
    /\ UNCHANGED <<df, verified, pc>>

\* An iteration whose search returns no media item (lines 178-209)
NotFound(resp) ==
    /\ pc = "loop"
    /\ idx < Len(df)
    /\ CurId # PyNone
    /\ CurItems(resp) = <<>>
    /\ idx' = idx + 1
    /\ lastResp' = resp
    /\ media_items' = <<>>
    /\ processed' = processed + 1
    /\ results' = Append(results, NotFoundRow(CurRow, CurId))
    /\ log' = Append(log, Query(idx + 1))
    /\ UNCHANGED <<df, matched, verified, pc>>

\* An iteration that finds media items and emits its row (lines 178-330)
FoundWith(resp, row, specimen_id, items, info) ==
    /\ pc = "loop"
    /\ idx < Len(df)
    /\ specimen_id # PyNone
    /\ items # <<>>
    /\ ~info.raised
    /\ idx' = idx + 1
    /\ lastResp' = resp
    /\ media_items' = items
    /\ processed' = processed + 1
    /\ matched' = matched + 1
    /\ verified' = IF info.match_status = "Verified" THEN verified + 1 ELSE verified
    /\ results' = Append(results, FoundRow(row, specimen_id, info))
    /\ log' = log \o <<Query(idx + 1), Sleep(idx + 1)>>
    /\ UNCHANGED <<df, pc>>

Found(resp) ==
    /\ idx < Len(df)
    /\ FoundWith(resp, CurRow, CurId, CurItems(resp),
                 best_match_info(CurRow, CurItems(resp)))

\* An iteration in which line 293 raises: nothing in process_csv catches it
Abort(resp) ==
    /\ pc = "loop"
    /\ idx < Len(df)
    /\ CurId # PyNone
    /\ CurItems(resp) # <<>>
    /\ best_match_info(CurRow, CurItems(resp)).raised
    /\ idx' = idx + 1
    /\ lastResp' = resp
    /\ media_items' = CurItems(resp)
    /\ processed' = processed + 1
    /\ matched' = matched + 1
    /\ log' = Append(log, Query(idx + 1))
    /\ pc' = "aborted"
    /\ UNCHANGED <<df, results, verified>>

\* The loop is over: the results become the returned table (lines 336-371)
Finish ==
    /\ pc = "loop"
    /\ idx = Len(df)
    /\ pc' = "done"
    /\ UNCHANGED <<df, idx, results, processed, matched, verified, log,
                   lastResp, media_items>>

\* The catalog answers only a query that is issued: one per iteration over a
\* row with a specimen id (line 197)
AnswersNow(answers) ==
    IF pc = "loop" /\ idx < Len(df) /\ CurId # PyNone THEN answers ELSE {}

\* One iteration over the next row, the catalog answering any of `answers`,
\* or the end of the loop
RowNotFound(answers) == \E resp \in AnswersNow(answers) : NotFound(resp)
RowFound(answers) == \E resp \in AnswersNow(answers) : Found(resp)
RowAborts(answers) == \E resp \in AnswersNow(answers) : Abort(resp)

NextOver(answers) ==
    \/ NoSpecimenId
    \/ RowNotFound(answers)
    \/ RowFound(answers)
    \/ RowAborts(answers)
    \/ Finish

\* ------------------------------------------------------------------------
\* Inputs: table rows, catalog records and catalog answers
\* ------------------------------------------------------------------------
T(cs) == Scalar(PyText(cs))

Twenty == <<"2", "0">>

Row(inst, coll, cat, x, y, z) ==
    [institution_code |-> inst, collection_code |-> coll, catalog_number |-> cat,
     Voxel_x_spacing |-> x, Voxel_y_spacing |-> y, Voxel_z_spacing |-> z]

Item(id, title, x, y, z) ==
    [id |-> id, physical_object_title |-> title,
     x_pixel_spacing |-> x, y_pixel_spacing |-> y, z_pixel_spacing |-> z]

SeqsUpTo(S, n) == UNION {[1..k -> S] : k \in 0..n}

\* Every answer of the catalog over the records of `pool`
Answers(pool) ==
    [kind : {"ok"}, items : SeqsUpTo(pool, MaxItems)]
    \cup [kind : {"status", "shape"}, items : {<<>>} \cup {<<r>> : r \in pool}]
    \cup {[kind |-> "error", items |-> <<>>]}

\* Rows: an identified row, its lower-case twin, one without institution
\* (pandas reads the empty cell as nan), one without local spacing.
RowA == Row(PyText(<<"A">>), PyText(<<"B">>), PyInt(1), PyFlt(20), PyFlt(20), PyFlt(20))
RowLower == Row(PyText(<<" ", "a", " ">>), PyText(<<"B">>), PyInt(1),
                PyFlt(20), PyFlt(20), PyFlt(20))
RowNoInst == Row(PyNaN, PyText(<<"B">>), PyInt(1), PyFlt(20), PyFlt(20), PyFlt(20))
RowNoSpacing == Row(PyText(<<"A">>), PyText(<<"B">>), PyInt(1), PyNaN, PyFlt(20), PyFlt(20))
RowTextSpacing == Row(PyText(<<"A">>), PyText(<<"B">>), PyInt(1),
                      PyText(Twenty), PyFlt(20), PyText(<<"x">>))

TitleA == <<"A", ":", "B", ":", "1">>
TitleOther == <<"A", ":", "B", ":", "2">>

\* Records of the row loop's catalog
ItemExact == Item(T(<<"7">>), T(TitleA), T(Twenty), T(Twenty), T(Twenty))
ItemOff == Item(List(<<PyText(<<"8">>)>>), T(TitleA), T(<<"2", "3">>), T(Twenty), T(Twenty))
ItemIdOnly == Item(T(<<"9">>), T(TitleA), Absent, Absent, Absent)
ItemNullId == Item(Scalar(PyNone), T(TitleA), Absent, Absent, Absent)
ItemOther == Item(T(<<"7">>), T(TitleOther), T(Twenty), T(Twenty), T(Twenty))

LoopRows == {RowA, RowNoInst}
LoopPool == {ItemExact, ItemOff, ItemIdOnly, ItemNullId, ItemOther}

Init == InitOver(Tables(LoopRows, MaxRows))
LoopAnswers == Answers(LoopPool)
Next == NextOver(LoopAnswers)
Spec == Init /\ [][Next]_vars

\* Single-row tables over rich identifier cells
IdInst == {PyText(<<"A">>), PyText(<<" ", "a", " ">>), PyNaN, PyText(<<" ">>),
           PyText(<<"n", "o", "n", "e">>), PyText(<<" ", "n", "a", "n">>)}
IdColl == {PyText(<<"B">>), PyText(<<"N", "o", "n", "e", " ">>), PyText(<<"N", "a", "n">>)}
IdCat == {PyInt(1), PyNaN, PyText(<<"N", "O", "N", "E">>)}
IdRows == {Row(i, c, n, PyFlt(20), PyFlt(20), PyFlt(20)) : i \in IdInst, c \in IdColl, n \in IdCat}

InitId == InitOver({<<r>> : r \in IdRows})
IdAnswers == Answers({ItemExact, ItemNullId})
NextId == NextOver(IdAnswers)
SpecId == InitId /\ [][NextId]_vars

\* Single-row tables against records over rich ids and spacings
SelIds == {Absent, Scalar(PyNone), T(<<"7">>), List(<<PyText(<<"8">>)>>)}
SelSpacings ==
    {<<T(Twenty), T(Twenty), T(Twenty)>>,
     <<List(<<PyText(<<"2", "1">>)>>), Scalar(PyFlt(19)), List(<<PyText(<<" ", "2", "0", " ">>)>>)>>,
     <<T(<<"2", "3">>), T(Twenty), T(Twenty)>>,
     <<T(Twenty), T(Twenty), List(<<PyText(<<"1", "7">>)>>)>>,
     <<Absent, T(Twenty), T(Twenty)>>,
     <<T(<<"a", "b", "c">>), T(Twenty), T(Twenty)>>,
     <<T(Twenty), T(Twenty), T(<<"a", "b", "c">>)>>,
     <<Absent, Scalar(PyNone), List(<<>>)>>,
     <<T(<<>>), T(Twenty), T(Twenty)>>}
SelPool == {Item(i, T(TitleA), sp[1], sp[2], sp[3]) : i \in SelIds, sp \in SelSpacings}
SelRows == {RowA, RowNoSpacing, RowTextSpacing, RowNoInst}

InitSel == InitOver({<<r>> : r \in SelRows})
SelAnswers == Answers(SelPool)
NextSel == NextOver(SelAnswers)
SpecSel == InitSel /\ [][NextSel]_vars

\* Single-row tables against records over rich titles
SearchTitles == {T(TitleA), List(<<PyText(<<" ", "a", ":", "b", ":", "1", " ">>)>>),
                 T(TitleOther), Scalar(PyNone), Absent, List(<<>>)}
SearchPool ==
    {Item(T(i), t, T(Twenty), T(Twenty), T(Twenty)) : i \in {<<"7">>, <<"8">>}, t \in SearchTitles}
    \cup {ItemNullId}
SearchRows == {RowA, RowLower, RowNoInst}

InitSearch == InitOver({<<r>> : r \in SearchRows})
SearchAnswers == Answers(SearchPool)
NextSearch == NextOver(SearchAnswers)
SpecSearch == InitSearch /\ [][NextSearch]_vars

\* ------------------------------------------------------------------------
\* The vocabulary of the properties, read off the catalog records directly
\* ------------------------------------------------------------------------
\* The row of the latest iteration, its identifier, whether it was emitted
LastRow == df[idx]
LastId == construct_specimen_id(LastRow)
Emitted == Len(results) = idx
LastOut == results[idx]
Queried == idx >= 1 /\ LastId # PyNone

\* A field's value: its first element when it is a sequence, nothing when it
\* is absent, null or an empty sequence
FieldValue(f) ==
    IF f.kind = "absent" THEN PyNone
    ELSE IF f.elems = <<>> THEN PyNone
    ELSE f.elems[1]

\* A value is a known number when it is a number, or a text that reads as one
KnownNumber(v) == v.t \in {"int", "flt"} \/ (v.t = "str" /\ ParseFloat(v.s).ok)
NumberOf(v) == IF v.t = "str" THEN ParseFloat(v.s).val.n ELSE v.n
FloatText(v) == PyStr(PyFlt(NumberOf(v)))

ApiAxes(item) ==
    <<FieldValue(item.x_pixel_spacing), FieldValue(item.y_pixel_spacing),
      FieldValue(item.z_pixel_spacing)>>
LocalAxes(row) == <<row.Voxel_x_spacing, row.Voxel_y_spacing, row.Voxel_z_spacing>>

KnownSpacing(item) == \A a \in 1..3 : KnownNumber(ApiAxes(item)[a])
KnownLocal(row) == \A a \in 1..3 : KnownNumber(LocalAxes(row)[a])

\* The candidate verifies the row: every value known, every axis in tolerance
Verifies(row, item) ==
    /\ KnownSpacing(item)
    /\ KnownLocal(row)
    /\ \A a \in 1..3 :
          Abs(NumberOf(LocalAxes(row)[a]) - NumberOf(ApiAxes(item)[a])) <= tolerance

HasId(item) == FieldValue(item.id) \notin {PyNone, PyText(<<>>)}
IdText(item) == IF HasId(item) THEN PyStr(FieldValue(item.id)) ELSE <<>>

\* The first candidate with property P, or 0
FirstWhere(items, P(_)) ==
    IF \E i \in 1..Len(items) : P(items[i])
    THEN CHOOSE i \in 1..Len(items) : P(items[i]) /\ \A j \in 1..(i - 1) : ~P(items[j])
    ELSE 0

\* The output row is bound to the candidate's id and spacing
BoundTo(out, item) ==
    /\ out.matched_media_id = IdText(item)
    /\ out.api_x_spacing = FloatText(ApiAxes(item)[1])
    /\ out.api_y_spacing = FloatText(ApiAxes(item)[2])
    /\ out.api_z_spacing = FloatText(ApiAxes(item)[3])

BlankSpacing(out) ==
    out.api_x_spacing = <<>> /\ out.api_y_spacing = <<>> /\ out.api_z_spacing = <<>>

\* ------------------------------------------------------------------------
\* C5
\* ------------------------------------------------------------------------
VerifiesLast(item) == Verifies(LastRow, item)

\* C5: for a row with an identifier and a non-empty candidate list, the row
\* is emitted with match_status 'Yes' if and only if some candidate has all
\* three axes known, the row's three local values are known and every axis
\* is within tolerance; and then the row is bound to the id and spacing of
\* the first such candidate in catalog order.
C5_YesIffFirstVerifying ==
    (Queried /\ media_items # <<>>) =>
        /\ (Emitted /\ LastOut.match_status = "Yes")
              <=> (\E i \in 1..Len(media_items) : VerifiesLast(media_items[i]))
        /\ (Emitted /\ LastOut.match_status = "Yes")
              => BoundTo(LastOut, media_items[FirstWhere(media_items, VerifiesLast)])

\* Two candidates with different ids both verify and the row says 'Yes'
C5_Witness ==
    /\ Queried
    /\ Len(media_items) = 2
    /\ VerifiesLast(media_items[1])
    /\ VerifiesLast(media_items[2])
    /\ IdText(media_items[1]) # IdText(media_items[2])
    /\ ApiAxes(media_items[1]) # ApiAxes(media_items[2])
    /\ Emitted
    /\ LastOut.match_status = "Yes"

\* ------------------------------------------------------------------------
\* C1
\* ------------------------------------------------------------------------
\* C1: for a row with an identifier and a non-empty candidate list in which
\* no candidate verifies, if some candidate has fully-known spacing then the
\* row is emitted with match_status 'Mismatch', bound to the id and spacing
\* of the first candidate in catalog order that has fully-known spacing.
C1_MismatchBoundToFirstAvailable ==
    (/\ Queried
     /\ media_items # <<>>
     /\ \A i \in 1..Len(media_items) : ~VerifiesLast(media_items[i])
     /\ \E i \in 1..Len(media_items) : KnownSpacing(media_items[i]))
    => /\ Emitted
       /\ LastOut.match_status = "Mismatch"
       /\ BoundTo(LastOut, media_items[FirstWhere(media_items, KnownSpacing)])

\* ------------------------------------------------------------------------
\* C2
\* ------------------------------------------------------------------------
\* C2: whatever the catalog answers, the row loop never aborts and emits
\* exactly one output row per input row consumed, in input order; when the
\* loop is over every input row has its output row.
C2_LoopCompletes ==
    /\ pc # "aborted"
    /\ Len(results) = idx
    /\ \A i \in 1..Len(results) : results[i].row = df[i]
    /\ (pc = "done" => Len(results) = Len(df))

\* ------------------------------------------------------------------------
\* C3
\* ------------------------------------------------------------------------
FieldTexts(row) ==
    {strip(PyStr(row.institution_code)), strip(PyStr(row.collection_code)),
     strip(PyStr(row.catalog_number))}

\* Row i was emitted without identifier and no catalog query was issued for it
NoIdentifierOutcome(i) ==
    /\ construct_specimen_id(df[i]) = PyNone
    /\ i <= Len(results)
    /\ results[i].constructed_specimen_id = PyNone
    /\ results[i].morphosource_status = "No Specimen ID"
    /\ \A k \in 1..Len(log) : log[k].row # i

C4_PacedBetweenQueries ==
    \A k \in 1..(Len(log) - 1) : log[k].ev = "query" => log[k + 1].ev = "sleep"

\* ------------------------------------------------------------------------
\* C6
\* ------------------------------------------------------------------------
\* C6: for a row with an identifier and a non-empty candidate list in which
\* no candidate has fully-known spacing, the row is emitted 'Found' with
\* match_status 'Missing Data' and blank spacing, bound to the id of the
\* first candidate that has one, or to the empty text when none has.
C6_MissingData ==
    (/\ Queried
     /\ media_items # <<>>
     /\ \A i \in 1..Len(media_items) : ~KnownSpacing(media_items[i]))
    => /\ Emitted
       /\ LastOut.morphosource_status = "Found"
       /\ LastOut.match_status = "Missing Data"
       /\ BlankSpacing(LastOut)
       /\ LastOut.matched_media_id =
             IF \E i \in 1..Len(media_items) : HasId(media_items[i])
             THEN IdText(media_items[FirstWhere(media_items, HasId)])
             ELSE <<>>

\* ------------------------------------------------------------------------
\* C7
\* ------------------------------------------------------------------------
FailedAnswer == lastResp.kind \in {"status", "error", "shape"}

\* C7: when the catalog answers a row's query with a non-success status, a
\* transport error or a body of unexpected shape, the search returns no
\* candidate, the row is emitted 'Not Found' / 'No' with empty id and
\* spacing, and the loop stands at the next row (or is over).
C7_FailedQueryIsNotFound ==
    (Queried /\ FailedAnswer)
    => /\ media_items = <<>>
       /\ Emitted
       /\ LastOut.row = LastRow
       /\ LastOut.morphosource_status = "Not Found"
       /\ LastOut.match_status = "No"
       /\ LastOut.matched_media_id = <<>>
       /\ BlankSpacing(LastOut)
       /\ pc \in {"loop", "done"}

\* The first of two rows met a non-success status whose body held a record
\* of that very specimen, and the loop stands at the second row
C7_Witness ==
    /\ Len(df) = 2
    /\ idx = 1
    /\ Queried
    /\ lastResp = [kind |-> "status", items |-> <<ItemExact>>]
    /\ LastOut.morphosource_status = "Not Found"
    /\ pc = "loop"

\* ------------------------------------------------------------------------
\* C8
\* ------------------------------------------------------------------------
BlankOrFloat(cs) == cs = <<>> \/ ParseFloat(cs).ok

\* C8: a candidate with a non-numeric spacing value is treated as having
\* unknown spacing, so it is bound to no 'Yes' or 'Mismatch' row and every
\* api_*_spacing of every output row is blank or the text of a float.
C8_SpacingBlankOrFloat ==
    \A i \in 1..Len(results) :
        /\ BlankOrFloat(results[i].api_x_spacing)
        /\ BlankOrFloat(results[i].api_y_spacing)
        /\ BlankOrFloat(results[i].api_z_spacing)

\* ------------------------------------------------------------------------
\* C9
\* ------------------------------------------------------------------------
\* The record's title (first element when sequence-valued), trimmed and
\* uppercased, equals the uppercased identifier of the latest row
TitleIsLastId(item) ==
    /\ FieldValue(item.physical_object_title).t = "str"
    /\ upper(strip(FieldValue(item.physical_object_title).s)) = upper(LastId.s)

\* C9: for a successful catalog response the candidate list is exactly the
\* subsequence, in catalog order, of the returned records whose title
\* matches the identifier, whatever other records the response holds.
C9_CandidatesAreTitleMatches ==
    (Queried /\ lastResp.kind = "ok")
    => media_items = SelectSeq(lastResp.items, TitleIsLastId)

\* ------------------------------------------------------------------------
\* C10
\* ------------------------------------------------------------------------
QueriesFor(i) == Cardinality({k \in 1..Len(log) : log[k] = Query(i)})

\* C10: verified <= matched <= processed <= rows consumed; processed is the
\* number of queries issued and the number of consumed rows with an
\* identifier, one query for each such row and none for the others; and at
\* every row boundary matched is the number of emitted rows that are 'Found'
\* and verified the number of emitted rows whose match_status is 'Yes'.
C10_Counters ==
    /\ verified <= matched
    /\ matched <= processed
    /\ processed <= idx
    /\ processed = Cardinality({k \in 1..Len(log) : log[k].ev = "query"})
    /\ processed = Cardinality({i \in 1..idx : construct_specimen_id(df[i]) # PyNone})
    /\ \A i \in 1..idx :
          QueriesFor(i) = IF construct_specimen_id(df[i]) # PyNone THEN 1 ELSE 0
    /\ pc # "aborted" =>
          /\ Len(results) = idx
          /\ matched = Cardinality({i \in 1..Len(results) :
                                      results[i].morphosource_status = "Found"})
          /\ verified = Cardinality({i \in 1..Len(results) :
                                       results[i].match_status = "Yes"})

\* Two rows consumed: one without identifier, one not found, or found in any
\* way; here a row without identifier and a verified row
C10_Witness ==
    /\ pc = "loop"
    /\ idx = 2
    /\ processed = 1
    /\ matched = 1
    /\ verified = 1
    /\ results[1].morphosource_status = "No Specimen ID"
    /\ results[2].match_status = "Yes"

====
